---- MODULE Spec2Model ----
(***************************************************************************)
(* Model of src/components/modules/blockEvents.ts (class BlockEvents):     *)
(* the keyboard and clipboard handlers bound on every Block.               *)
(*                                                                         *)
(* The editor document is a list of blocks owned by BlockManager.  Each    *)
(* handler is one action.  A handler reads the event and the live editor   *)
(* state (caret position, toolbar panels), calls the collaborator modules  *)
(* and returns.  The calls of the handler are kept, in order, in `calls`;  *)
(* the values it read are kept in `ev`; the document as it was when the    *)
(* handler started is kept in `pre`.  Return models the handler returning  *)
(* to the event loop: the record of the event is dropped and the next      *)
(* event, settled promise or timer can be handled.                         *)
(*                                                                         *)
(* Next has every handler of the class, the promises they start and the    *)
(* timers they set, on documents that grow up to MaxBlocks.  Spec starts   *)
(* the editor on documents with media and code blocks, SpecLists on a      *)
(* gallery and a list, SpecParagraphs on two paragraphs.                   *)
(*                                                                         *)
(* Block indices are 0-based as in the source: the block with index i is   *)
(* blocks[i + 1].  A reference to a Block object held in a local variable  *)
(* or closure is modelled by the index the object has at that moment and   *)
(* is shifted by every later insertion and removal.                        *)
(***************************************************************************)
EXTENDS Integers, Sequences, FiniteSets, TLC

VARIABLES
    blocks,             \* BlockManager.blocks
    currentBlockIndex,  \* BlockManager.currentBlockIndex
    pending,            \* timers that have not fired, promises that have not settled
    created,            \* indices of the blocks created by the last handler
    calls,              \* collaborator calls made by the last handler, in order
    ev,                 \* the event handled last, with the values the handler read
    pre                 \* blocks and currentBlockIndex when the last handler started

vars == <<blocks, currentBlockIndex, pending, created, calls, ev, pre>>

----------------------------------------------------------------------------
(* Bounds *)

\* an insertion is modelled only while the document has fewer blocks than this
MaxBlocks == 3

\* at most this many promises are pending at once
MaxPending == 1

\* at most this many timers of _.delay are waiting at once
MaxTimers == 2

\* at most this many copies of cuts are pending at once, and more than
\* MaxPending of them only while no merge is pending
MaxCuts == 2

----------------------------------------------------------------------------
(* Configuration and tools *)

DEFAULT_TYPE_ACCEPT ==
    {"paragraph", "list", "header", "header01", "header02", "header03"}

\* this.config.defaultBlock
defaultBlock == "paragraph"

\* Caret.positions
START == "start"
END == "end"
DEFAULT == "default"

\* marks a call argument that the call does not have
NoIdx == -1
NoArg == ""

\* Panels whose `opened` flag the handlers read; at most one is open
Panels == {"none", "toolbox", "blockSettings", "inlineToolbar", "conversionToolbar"}

\* block.tool.isLineBreaksEnabled
isLineBreaksEnabled(name) == name = "code"

\* block.mergeable: the tool has a merge method
mergeable(name) == name \in {"paragraph", "header02"}

\* number of editable inputs of a block a tool creates
ToolInputs(name) ==
    IF name \in {"image", "gallery"} THEN 0
    ELSE IF name = "quote" THEN 2
    ELSE 1

Block(name, isEmpty, nInputs, inputIndex, hasMedia, selected) ==
    [name |-> name, isEmpty |-> isEmpty, nInputs |-> nInputs,
     inputIndex |-> inputIndex, hasMedia |-> hasMedia, selected |-> selected]

\* BlockManager.composeBlock: a new block of the given tool
NewBlock(name, isEmpty) ==
    Block(name, isEmpty, ToolInputs(name), 0, FALSE, FALSE)

\* The documents the editor starts with
Paragraph == Block("paragraph", FALSE, 1, 0, FALSE, FALSE)

InitDocs ==
    { <<Block("image", FALSE, 0, 0, TRUE, FALSE), Block("code", FALSE, 1, 0, FALSE, FALSE),
        Paragraph>>,
      <<Block("gallery", FALSE, 2, 0, TRUE, FALSE), Paragraph>> }

ListDocs ==
    { <<Block("gallery", FALSE, 1, 0, TRUE, FALSE), Block("list", FALSE, 1, 0, FALSE, FALSE)>> }

----------------------------------------------------------------------------
(* BlockManager, Caret, BlockSelection: the collaborators' effects *)

BlockAt(bs, i) == bs[i + 1]
HasBlock(bs, i) == i >= 0 /\ i < Len(bs)

InsertSeq(s, i, b) == SubSeq(s, 1, i) \o <<b>> \o SubSeq(s, i + 1, Len(s))
RemoveSeq(s, i) == SubSeq(s, 1, i) \o SubSeq(s, i + 2, Len(s))

RefAfterInsert(p, i) == IF p >= i THEN p + 1 ELSE p
RefAfterRemove(p, i) == IF p = i THEN NoIdx ELSE IF p > i THEN p - 1 ELSE p

Call(op, idx, arg) == [op |-> op, idx |-> idx, arg |-> arg]

Log(m, op, idx, arg) == [m EXCEPT !.calls = Append(@, Call(op, idx, arg))]

\* Blocks.insert and the index bookkeeping shared by the inserting methods
InsertAt(m, index, b, needToFocus) ==
    [m EXCEPT
        !.blocks = InsertSeq(@, index, b),
        !.cur = IF needToFocus THEN index
                ELSE IF index <= @ THEN @ + 1 ELSE @,
        !.created = {RefAfterInsert(p, index) : p \in @} \cup {index},
        !.pending = [k \in DOMAIN @ |->
                        [@[k] EXCEPT !.target = RefAfterInsert(@, index)]]]

\* BlockManager.insertDefaultBlockAtIndex(index, needToFocus, type)
insertDefaultBlockAtIndex(m, index, needToFocus, type) ==
    LET logged == Log(m, "insertDefaultBlockAtIndex", index, type)
    IN  IF index = NoIdx THEN logged
        ELSE InsertAt(logged, index, NewBlock(type, TRUE), needToFocus)

\* BlockManager.split(type): the text after the caret moves to a new block
\* inserted after the current one, which becomes the current block
split(m, type) ==
    InsertAt(Log(m, "split", NoIdx, type), m.cur + 1, NewBlock(type, FALSE), TRUE)

\* BlockManager.removeBlock without the call record
RemoveAt(m, index) ==
    LET bs == RemoveSeq(m.blocks, index)
        shifted == [m EXCEPT
            !.blocks = bs,
            !.cur = IF @ >= index THEN @ - 1 ELSE @,
            !.created = {RefAfterRemove(p, index) : p \in @} \ {NoIdx},
            !.pending = [k \in DOMAIN @ |->
                            [@[k] EXCEPT !.target = RefAfterRemove(@, index)]]]
    IN  IF bs = <<>>
        THEN [shifted EXCEPT !.blocks = <<NewBlock(defaultBlock, TRUE)>>,
                             !.cur = 0, !.created = {0}]
        ELSE IF index = 0 THEN [shifted EXCEPT !.cur = 0]
        ELSE shifted

\* BlockManager.removeBlock(index)
removeBlock(m, index) == RemoveAt(Log(m, "removeBlock", index, NoArg), index)

\* Caret.setToBlock(block, position): a block without inputs is left alone
setToBlock(m, ref, position) ==
    LET logged == Log(m, "Caret.setToBlock", ref, position)
        b == BlockAt(m.blocks, ref)
    IN  IF ~HasBlock(m.blocks, ref) \/ b.nInputs = 0 THEN logged
        ELSE [logged EXCEPT
                !.cur = ref,
                !.blocks[ref + 1].inputIndex =
                    IF position = END THEN b.nInputs - 1 ELSE 0]

\* BlockSelection.clearSelection(event)
clearSelection(m) ==
    [Log(m, "BlockSelection.clearSelection", NoIdx, NoArg) EXCEPT
        !.blocks = [k \in DOMAIN @ |-> [@[k] EXCEPT !.selected = FALSE]]]

\* A promise that has not settled: the copy of a cut, or a block merge with
\* the target Block it holds and the index of the block to merge it took
Promise(kind, target, index) == [kind |-> kind, target |-> target, index |-> index]

\* BlockSelection.copySelectedBlocks(event): the promise is returned
copySelectedBlocks(m, kind) ==
    LET logged == Log(m, "BlockSelection.copySelectedBlocks", NoIdx, NoArg)
    IN  IF kind = "cut"
        THEN [logged EXCEPT !.pending = Append(@, Promise("cut", NoIdx, NoIdx))]
        ELSE logged

\* the loop of BlockManager.removeSelectedBlocks, from index i down to 0
RECURSIVE RemoveSelectedFrom(_, _, _)
RemoveSelectedFrom(m, i, first) ==
    IF i < 0 THEN [m |-> m, first |-> first]
    ELSE IF HasBlock(m.blocks, i) /\ BlockAt(m.blocks, i).selected
    THEN RemoveSelectedFrom(RemoveAt(m, i), i - 1, i)
    ELSE RemoveSelectedFrom(m, i - 1, first)

\* BlockManager.removeSelectedBlocks(): the index of the first removed block
removeSelectedBlocks(m) ==
    LET r == RemoveSelectedFrom(m, Len(m.blocks) - 1, NoIdx)
    IN  [m |-> Log(r.m, "removeSelectedBlocks", r.first, NoArg), first |-> r.first]

\* BlockManager.mergeBlocks(targetBlock, blockToMerge): the promise is returned
startMergeBlocks(m, target, index) ==
    [Log(m, "BlockManager.mergeBlocks", target, NoArg) EXCEPT
        !.pending = Append(@, Promise("merge", target, index))]

\* Caret.navigatePrevious(): to the end of the previous input, or of the
\* nearest previous block that has inputs, when the caret is at the start
navigatePrevious(m, isAtStart) ==
    LET logged == Log(m, "Caret.navigatePrevious", NoIdx, NoArg)
        cb == BlockAt(m.blocks, m.cur)
        contentful == {i \in 0 .. m.cur - 1 : BlockAt(m.blocks, i).nInputs > 0}
        previous == CHOOSE i \in contentful : \A j \in contentful : j <= i
    IN  IF ~HasBlock(m.blocks, m.cur) THEN [m |-> logged, ok |-> FALSE]
        ELSE IF contentful = {} /\ cb.inputIndex = 0 THEN [m |-> logged, ok |-> FALSE]
        ELSE IF ~isAtStart THEN [m |-> logged, ok |-> FALSE]
        ELSE IF cb.inputIndex > 0
        THEN [m |-> [logged EXCEPT !.blocks[m.cur + 1].inputIndex = @ - 1],
              ok |-> TRUE]
        ELSE [m |-> [logged EXCEPT
                        !.cur = previous,
                        !.blocks[previous + 1].inputIndex =
                            BlockAt(m.blocks, previous).nInputs - 1],
              ok |-> TRUE]

\* Caret.navigateNext(): to the start of the next input, or of the nearest
\* next block that has inputs, when the caret is at the end
navigateNext(m, isAtEnd) ==
    LET logged == Log(m, "Caret.navigateNext", NoIdx, NoArg)
        cb == BlockAt(m.blocks, m.cur)
        contentful == {i \in m.cur + 1 .. Len(m.blocks) - 1 :
                          BlockAt(m.blocks, i).nInputs > 0}
        next == CHOOSE i \in contentful : \A j \in contentful : i <= j
    IN  IF ~HasBlock(m.blocks, m.cur) THEN [m |-> logged, ok |-> FALSE]
        ELSE IF contentful = {} /\ cb.inputIndex >= cb.nInputs - 1
        THEN [m |-> logged, ok |-> FALSE]
        ELSE IF ~isAtEnd THEN [m |-> logged, ok |-> FALSE]
        ELSE IF cb.inputIndex < cb.nInputs - 1
        THEN [m |-> [logged EXCEPT !.blocks[m.cur + 1].inputIndex = @ + 1],
              ok |-> TRUE]
        ELSE [m |-> [logged EXCEPT !.cur = next,
                                   !.blocks[next + 1].inputIndex = 0],
              ok |-> TRUE]

\* BlocksAPI.move(toIndex): the current block changes places with the block
\* at toIndex, next to it, and stays the current block
move(m, toIndex) ==
    LET from == m.cur
        Moved(p) == IF p = from THEN toIndex ELSE IF p = toIndex THEN from ELSE p
    IN  [Log(m, "BlocksAPI.move", toIndex, NoArg) EXCEPT
            !.blocks = [k \in DOMAIN @ |-> @[Moved(k - 1) + 1]],
            !.cur = toIndex,
            !.pending = [k \in DOMAIN @ |-> [@[k] EXCEPT !.target = Moved(@)]]]

\* CrossBlockSelection.toggleBlockSelectedState(next): the selection starts
\* at the current block
toggleBlockSelectedState(m, next) ==
    LET logged == Log(m, "CrossBlockSelection.toggleBlockSelectedState", NoIdx, next)
    IN  IF ~HasBlock(m.blocks, m.cur) THEN logged
        ELSE [logged EXCEPT !.blocks[m.cur + 1].selected = TRUE]

\* _.delay(method, timeout)(): the call is put off until the timer fires
delay(m) ==
    [Log(m, "_.delay", NoIdx, NoArg) EXCEPT
        !.pending = <<Promise("timer", NoIdx, NoIdx)>> \o @]

\* Block.updateCurrentInput(): the current input becomes the one the native
\* caret is in
updateCurrentInput(m, input) ==
    LET logged == Log(m, "updateCurrentInput", m.cur, NoArg)
    IN  IF BlockAt(m.blocks, m.cur).nInputs = 0 THEN logged
        ELSE [logged EXCEPT !.blocks[m.cur + 1].inputIndex = input]

\* Flipper.usedKeys
usedKeys == {"TAB", "LEFT", "RIGHT", "ENTER", "UP", "DOWN"}

\* block.tool.isDefault
isDefault(name) == name = defaultBlock

\* BlockSelection.anyBlockSelected
anyBlockSelected(bs) == \E k \in DOMAIN bs : bs[k].selected

\* _.isPrintableKey(keyCode)
isPrintableKey(key) == key \in {"ENTER", "CHAR"}

----------------------------------------------------------------------------
(* BlockEvents *)

\* needToolbarClosing(event)
needToolbarClosing(e) ==
    LET toolboxItemSelected == e.key = "ENTER" /\ e.panel = "toolbox"
        blockSettingsItemSelected == e.key = "ENTER" /\ e.panel = "blockSettings"
        inlineToolbarItemSelected == e.key = "ENTER" /\ e.panel = "inlineToolbar"
        conversionToolbarItemSelected ==
            e.key = "ENTER" /\ e.panel = "conversionToolbar"
        flippingToolbarItems == e.key = "TAB"
    IN  ~(e.shiftKey \/ flippingToolbarItems \/ toolboxItemSelected
          \/ blockSettingsItemSelected \/ inlineToolbarItemSelected
          \/ conversionToolbarItemSelected)

\* beforeKeydownProcessing(event)
beforeKeydownProcessing_ClearOnShortcut(m, e) ==
    IF ~needToolbarClosing(e) \/ ~isPrintableKey(e.key) THEN m
    ELSE clearSelection(Log(Log(Log(m, "Toolbar.close", NoIdx, NoArg),
                                "ConversionToolbar.close", NoIdx, NoArg),
                            "BlockManager.clearFocused", NoIdx, NoArg))

beforeKeydownProcessing(m, e) ==
    IF ~needToolbarClosing(e) THEN m
    ELSE IF isPrintableKey(e.key)
    THEN LET closed == Log(Log(m, "Toolbar.close", NoIdx, NoArg),
                           "ConversionToolbar.close", NoIdx, NoArg)
             isShortcut == e.ctrlKey \/ e.metaKey \/ e.altKey \/ e.shiftKey
         IN  IF ~isShortcut
             THEN clearSelection(Log(closed, "BlockManager.clearFocused", NoIdx, NoArg))
             ELSE closed
    ELSE m

\* enter(event): the keydowns left to the default behaviour
enterDeferred_NoShift(m, e) ==
    \/ isLineBreaksEnabled(BlockAt(m.blocks, m.cur).name)
    \/ (e.panel # "none" /\ e.flipperFocused)

enterDeferred(m, e) ==
    \/ isLineBreaksEnabled(BlockAt(m.blocks, m.cur).name)
    \/ (e.panel # "none" /\ e.flipperFocused)
    \/ e.shiftKey

\* enter(event), caret at the start: a block is inserted above.  newCurrent is
\* the handler's local variable of that name, set to BlockManager.currentBlock
\* before the insertion and assigned the inserted block only for a list
enterAtStart_Below(m) ==
    IF BlockAt(m.blocks, m.cur).name = "list"
    THEN [m |-> insertDefaultBlockAtIndex(m, m.cur + 1, FALSE, defaultBlock),
          newCurrent |-> m.cur + 1]
    ELSE [m |-> insertDefaultBlockAtIndex(m, m.cur + 1, FALSE, defaultBlock),
          newCurrent |-> RefAfterInsert(m.cur, m.cur + 1)]

enterAtStart(m) ==
    IF BlockAt(m.blocks, m.cur).name = "list"
    THEN [m |-> insertDefaultBlockAtIndex(m, m.cur, FALSE, defaultBlock),
          newCurrent |-> m.cur]
    ELSE [m |-> insertDefaultBlockAtIndex(m, m.cur, FALSE, defaultBlock),
          newCurrent |-> RefAfterInsert(m.cur, m.cur)]

\* enter(event), caret at the end: a block is appended after the current one
enterAtEnd_NoList(m) ==
    [m |-> insertDefaultBlockAtIndex(m, m.cur + 1, FALSE, defaultBlock),
     newCurrent |-> m.cur + 1]

enterAtEnd(m) ==
    IF BlockAt(m.blocks, m.cur).name = "list"
    THEN [m |-> insertDefaultBlockAtIndex(m, m.cur + 1, FALSE, "list"),
          newCurrent |-> m.cur + 1]
    ELSE [m |-> insertDefaultBlockAtIndex(m, m.cur + 1, FALSE, defaultBlock),
          newCurrent |-> m.cur + 1]

\* enter(event), caret inside the text: the current block is split
enterSplit_AnyType(m) ==
    [m |-> split(m, BlockAt(m.blocks, m.cur).name), newCurrent |-> m.cur + 1]

enterSplit(m) ==
    LET newBlockType == BlockAt(m.blocks, m.cur).name
    IN  [m |-> split(m, IF newBlockType \in DEFAULT_TYPE_ACCEPT
                        THEN newBlockType ELSE "paragraph"),
         newCurrent |-> m.cur + 1]

\* enter(event): the three branches
enterBranch(m, e) ==
    IF e.isAtStart /\ ~BlockAt(m.blocks, m.cur).hasMedia THEN enterAtStart(m)
    ELSE IF e.isAtEnd THEN enterAtEnd(m)
    ELSE enterSplit(m)

\* a property of BlockManager.currentBlock is read while there is no current
\* block: the handler ends with a TypeError
Thrown(m) == Log(m, "throw", NoIdx, "TypeError")

\* enter(event)
enter_ToolbarOnCurrent(m, e) ==
    IF ~HasBlock(m.blocks, m.cur) THEN Thrown(m)
    ELSE IF enterDeferred(m, e) THEN m
    ELSE LET r == enterBranch(m, e)
             set == setToBlock(r.m, r.newCurrent, DEFAULT)
             opened == Log(set, "Toolbar.moveAndOpen", m.cur, NoArg)
         IN  Log(opened, "preventDefault", NoIdx, NoArg)

enter(m, e) ==
    IF ~HasBlock(m.blocks, m.cur) THEN Thrown(m)
    ELSE IF enterDeferred(m, e) THEN m
    ELSE LET r == enterBranch(m, e)
             set == setToBlock(r.m, r.newCurrent, DEFAULT)
             opened == Log(set, "Toolbar.moveAndOpen", r.newCurrent, NoArg)
         IN  Log(opened, "preventDefault", NoIdx, NoArg)

\* mergeBlocks(): the two blocks can be merged
canBeMerged_SameName(blockToMerge, targetBlock) ==
    blockToMerge.name = targetBlock.name

canBeMerged(blockToMerge, targetBlock) ==
    ~(blockToMerge.name # targetBlock.name \/ ~mergeable(targetBlock.name))

\* mergeBlocks()
mergeBlocks_RemoveCurrent(m, e) ==
    LET target == m.cur - 1
        targetBlock == BlockAt(m.blocks, target)
        blockToMerge == BlockAt(m.blocks, m.cur)
    IN  IF ~HasBlock(m.blocks, target) THEN Thrown(m)
        ELSE IF ~canBeMerged(blockToMerge, targetBlock)
        THEN LET removed == removeBlock(m, m.cur)
                 set == setToBlock(removed, removed.cur, DEFAULT)
             IN  Log(set, "Toolbar.close", NoIdx, NoArg)
        ELSE startMergeBlocks(Log(m, "Caret.createShadow", target, NoArg),
                              target, m.cur)

mergeBlocks(m, e) ==
    LET target == m.cur - 1
        targetBlock == BlockAt(m.blocks, target)
        blockToMerge == BlockAt(m.blocks, m.cur)
    IN  IF ~HasBlock(m.blocks, target) THEN Thrown(m)
        ELSE IF ~canBeMerged(blockToMerge, targetBlock)
        THEN IF targetBlock.nInputs = 0 \/ targetBlock.isEmpty
             THEN LET removed == removeBlock(m, m.cur - 1)
                      set == setToBlock(removed, removed.cur, DEFAULT)
                  IN  Log(set, "Toolbar.close", NoIdx, NoArg)
             ELSE LET nav == navigatePrevious(m, e.isAtStart)
                  IN  IF nav.ok THEN Log(nav.m, "Toolbar.close", NoIdx, NoArg)
                      ELSE nav.m
        ELSE startMergeBlocks(Log(m, "Caret.createShadow", target, NoArg),
                              target, m.cur)

\* backspace(event): the block is to be removed by this keydown
backspaceRemoves(m) ==
    LET currentBlock == BlockAt(m.blocks, m.cur)
    IN  \/ currentBlock.selected
        \/ (currentBlock.isEmpty /\ currentBlock.inputIndex = 0)

\* backspace(event): the index of the block to remove
backspaceRemoveIndex_AnyMedia(m) ==
    IF /\ m.cur > 0
       /\ BlockAt(m.blocks, m.cur - 1).name \in {"image", "gallery"}
    THEN m.cur - 1
    ELSE m.cur

backspaceRemoveIndex(m) ==
    LET index == m.cur
        previousBlock == BlockAt(m.blocks, index - 1)
    IN  IF /\ index > 0
           /\ previousBlock.nInputs = 0
           /\ (previousBlock.name = "image" \/ previousBlock.name = "gallery")
        THEN index - 1
        ELSE m.cur

\* backspace(event): the removal of a block
backspaceRemoval_EndAtFirst(m) ==
    LET prevented == Log(m, "preventDefault", NoIdx, NoArg)
        index == m.cur
        removed == removeBlock(prevented, backspaceRemoveIndex(prevented))
        set == setToBlock(removed, removed.cur, IF index # 0 THEN START ELSE END)
    IN  clearSelection(Log(set, "Toolbar.close", NoIdx, NoArg))

backspaceRemoval(m) ==
    LET prevented == Log(m, "preventDefault", NoIdx, NoArg)
        index == m.cur
        removed == removeBlock(prevented, backspaceRemoveIndex(prevented))
        set == setToBlock(removed, removed.cur, IF index # 0 THEN END ELSE START)
    IN  clearSelection(Log(set, "Toolbar.close", NoIdx, NoArg))

\* backspace(event): the current block is to be merged with the previous one
canMergeBlocks_AnySelection(m, e) ==
    /\ e.isAtStart
    /\ BlockAt(m.blocks, m.cur).inputIndex = 0
    /\ m.cur # 0

canMergeBlocks_FirstBlock(m, e) ==
    /\ e.isAtStart
    /\ e.isCollapsed
    /\ BlockAt(m.blocks, m.cur).inputIndex = 0

canMergeBlocks(m, e) ==
    LET isFirstBlock == m.cur = 0
    IN  /\ e.isAtStart
        /\ e.isCollapsed
        /\ BlockAt(m.blocks, m.cur).inputIndex = 0
        /\ ~isFirstBlock

\* backspace(event)
backspace(m, e) ==
    IF ~HasBlock(m.blocks, m.cur) THEN Thrown(m)
    ELSE IF backspaceRemoves(m) THEN backspaceRemoval(m)
    ELSE IF isLineBreaksEnabled(BlockAt(m.blocks, m.cur).name) /\ ~e.isAtStart
    THEN m
    ELSE IF canMergeBlocks(m, e)
    THEN mergeBlocks(Log(m, "preventDefault", NoIdx, NoArg), e)
    ELSE m

\* handleCommandC(event)
handleCommandC(m) ==
    IF ~anyBlockSelected(m.blocks) THEN m
    ELSE copySelectedBlocks(m, "copy")

\* handleCommandX(event), up to the promise of the copy
handleCommandX(m) ==
    IF ~anyBlockSelected(m.blocks) THEN m
    ELSE copySelectedBlocks(m, "cut")

\* handleCommandX(event): the function passed to then()
cutContinuation_InsertFirst(m) ==
    LET inserted == insertDefaultBlockAtIndex(m, m.cur, TRUE, defaultBlock)
        removed == removeSelectedBlocks(inserted)
    IN  clearSelection(setToBlock(removed.m, removed.first, START))

cutContinuation_IfSelected(m) ==
    IF ~anyBlockSelected(m.blocks) THEN m
    ELSE LET removed == removeSelectedBlocks(m)
             inserted == insertDefaultBlockAtIndex(removed.m, removed.first,
                                                   TRUE, defaultBlock)
         IN  clearSelection(setToBlock(inserted, removed.first, START))

cutContinuation(m) ==
    LET removed == removeSelectedBlocks(m)
        selectionPositionIndex == removed.first
        inserted == insertDefaultBlockAtIndex(removed.m, selectionPositionIndex,
                                              TRUE, defaultBlock)
        insertedBlock == selectionPositionIndex
    IN  clearSelection(setToBlock(inserted, insertedBlock, START))

\* mergeBlocks(): the promise of BlockManager.mergeBlocks settles (the block
\* to merge is removed at the index taken when the merge started and the
\* target becomes the current block), then the function passed to then() runs
mergeContinuation_NoClose(m, p) ==
    IF ~HasBlock(m.blocks, p.index) THEN m
    ELSE LET removed == RemoveAt(m, p.index)
             target == RefAfterRemove(p.target, p.index)
         IN  Log(Log([removed EXCEPT !.cur = target], "Caret.restoreCaret", target, NoArg),
                 "pluginsContent.normalize", target, NoArg)

mergeContinuation(m, p) ==
    IF ~HasBlock(m.blocks, p.index) THEN m
    ELSE LET removed == RemoveAt(m, p.index)
             target == RefAfterRemove(p.target, p.index)
             merged == [removed EXCEPT !.cur = target]
         IN  Log(Log(Log(merged, "Caret.restoreCaret", target, NoArg),
                     "pluginsContent.normalize", target, NoArg),
                 "Toolbar.close", NoIdx, NoArg)

\* keydown(event): an Error thrown by the handler ends the keydown
ThrownError(m) == Log(m, "throw", NoIdx, "Error")

Threw(m) == m.calls # <<>> /\ m.calls[Len(m.calls)].op = "throw"

\* keydown(event), case DOWN up to the fall through to case RIGHT
reorderDown_AnyBlock(m, e) ==
    IF ~(e.shiftKey /\ e.metaKey) THEN m
    ELSE IF ~HasBlock(m.blocks, m.cur) THEN Thrown(m)
    ELSE IF ~HasBlock(m.blocks, m.cur + 1) THEN ThrownError(m)
    ELSE move(Log(m, "window.scrollTo", NoIdx, NoArg), m.cur + 1)

reorderDown(m, e) ==
    IF ~(e.shiftKey /\ e.metaKey) THEN m
    ELSE LET currentBlockIndex_ == m.cur
         IN  IF ~HasBlock(m.blocks, currentBlockIndex_) THEN Thrown(m)
             ELSE IF BlockAt(m.blocks, currentBlockIndex_).name # "image" THEN m
             ELSE IF ~HasBlock(m.blocks, currentBlockIndex_ + 1) THEN ThrownError(m)
             ELSE move(Log(m, "window.scrollTo", NoIdx, NoArg), currentBlockIndex_ + 1)

\* keydown(event), case UP up to the fall through to case LEFT
reorderUp(m, e) ==
    IF ~(e.shiftKey /\ e.metaKey) THEN m
    ELSE LET currentBlockIndex_ == m.cur
         IN  IF ~HasBlock(m.blocks, currentBlockIndex_) THEN Thrown(m)
             ELSE IF BlockAt(m.blocks, currentBlockIndex_).name # "image" THEN m
             ELSE IF currentBlockIndex_ = 0 \/ ~HasBlock(m.blocks, currentBlockIndex_ - 1)
             THEN ThrownError(m)
             ELSE move(Log(m, "window.scrollBy", NoIdx, NoArg), currentBlockIndex_ - 1)

\* arrowRightAndDown(event) and arrowLeftAndUp(event): the end of the handler,
\* after the caret navigation
afterNavigation_AlwaysDelay(nav) == clearSelection(delay(nav.m))

afterNavigation(nav) ==
    clearSelection(IF nav.ok THEN Log(nav.m, "preventDefault", NoIdx, NoArg)
                   ELSE delay(nav.m))

\* arrowRightAndDown(event)
arrowRightAndDown_AnyCaret(m, e) ==
    LET cleared == Log(Log(m, "BlockManager.clearFocused", NoIdx, NoArg),
                       "Toolbar.close", NoIdx, NoArg)
        navigateNext_ == e.key = "DOWN" \/ (e.key = "RIGHT" /\ ~e.isRtl)
    IN  IF e.panel # "none" /\ e.key \in usedKeys /\ ~e.shiftKey THEN m
        ELSE IF e.shiftKey /\ e.key = "DOWN"
        THEN toggleBlockSelectedState(cleared, "next")
        ELSE afterNavigation(IF navigateNext_ THEN navigateNext(cleared, e.isAtEnd)
                             ELSE navigatePrevious(cleared, e.isAtStart))

arrowRightAndDown(m, e) ==
    LET isFlipperCombination == e.key \in usedKeys /\ (~e.shiftKey \/ e.key = "TAB")
        cleared == Log(Log(m, "BlockManager.clearFocused", NoIdx, NoArg),
                       "Toolbar.close", NoIdx, NoArg)
        shouldEnableCBS == e.isAtEnd \/ anyBlockSelected(m.blocks)
        navigateNext_ == e.key = "DOWN" \/ (e.key = "RIGHT" /\ ~e.isRtl)
    IN  IF e.panel # "none" /\ isFlipperCombination THEN m
        ELSE IF e.shiftKey /\ e.key = "DOWN" /\ shouldEnableCBS
        THEN toggleBlockSelectedState(cleared, "next")
        ELSE afterNavigation(IF navigateNext_ THEN navigateNext(cleared, e.isAtEnd)
                             ELSE navigatePrevious(cleared, e.isAtStart))

\* arrowLeftAndUp(event)
arrowLeftAndUp(m, e) ==
    LET flipperKey == e.key \in usedKeys /\ (~e.shiftKey \/ e.key = "TAB")
        closed == IF e.panel # "none"
                  THEN Log(m, "UI.closeAllToolbars", NoIdx, NoArg) ELSE m
        cleared == Log(Log(closed, "BlockManager.clearFocused", NoIdx, NoArg),
                       "Toolbar.close", NoIdx, NoArg)
        shouldEnableCBS == e.isAtStart \/ anyBlockSelected(m.blocks)
        navigatePrevious_ == e.key = "UP" \/ (e.key = "LEFT" /\ ~e.isRtl)
    IN  IF e.panel # "none" /\ flipperKey THEN m
        ELSE IF e.shiftKey /\ e.key = "UP" /\ shouldEnableCBS
        THEN toggleBlockSelectedState(cleared, "previous")
        ELSE afterNavigation(IF navigatePrevious_
                             THEN navigatePrevious(cleared, e.isAtStart)
                             ELSE navigateNext(cleared, e.isAtEnd))

\* keydown(event), the cases DOWN, RIGHT, UP and LEFT of the switch
keydownArrow_FallThrough(m, e) ==
    IF e.key \in {"DOWN", "RIGHT"}
    THEN arrowRightAndDown(IF e.key = "DOWN" THEN reorderDown(m, e) ELSE m, e)
    ELSE arrowLeftAndUp(IF e.key = "UP" THEN reorderUp(m, e) ELSE m, e)

keydownArrow_StopAfterMove(m, e) ==
    IF e.key \in {"DOWN", "RIGHT"}
    THEN LET moved == IF e.key = "DOWN" THEN reorderDown(m, e) ELSE m
         IN  IF Threw(moved) \/ moved.calls # m.calls THEN moved
             ELSE arrowRightAndDown(moved, e)
    ELSE LET moved == IF e.key = "UP" THEN reorderUp(m, e) ELSE m
         IN  IF Threw(moved) \/ moved.calls # m.calls THEN moved
             ELSE arrowLeftAndUp(moved, e)

keydownArrow(m, e) ==
    IF e.key \in {"DOWN", "RIGHT"}
    THEN LET moved == IF e.key = "DOWN" THEN reorderDown(m, e) ELSE m
         IN  IF Threw(moved) THEN moved ELSE arrowRightAndDown(moved, e)
    ELSE LET moved == IF e.key = "UP" THEN reorderUp(m, e) ELSE m
         IN  IF Threw(moved) THEN moved ELSE arrowLeftAndUp(moved, e)

\* the function arrowRightAndDown and arrowLeftAndUp pass to _.delay
delayedRefresh_First(m, input) == updateCurrentInput([m EXCEPT !.cur = 0], input)

delayedRefresh(m, input) ==
    IF HasBlock(m.blocks, m.cur) THEN updateCurrentInput(m, input) ELSE m

\* activateToolbox()
activateToolbox(m, e) ==
    LET moved == IF ~e.toolbarOpened
                 THEN Log(m, "Toolbar.moveAndOpen", NoIdx, NoArg) ELSE m
    IN  Log(moved, "Toolbox.open", NoIdx, NoArg)

\* activateBlockSettings()
activateBlockSettings(m, e) ==
    LET moved == IF ~e.toolbarOpened
                 THEN Log(Log(m, "currentBlock.focused", m.cur, "true"),
                          "Toolbar.moveAndOpen", NoIdx, NoArg)
                 ELSE m
    IN  IF e.panel # "blockSettings"
        THEN Log(moved, "BlockSettings.open", NoIdx, NoArg)
        ELSE moved

\* tabPressed(event): block settings can be opened
canOpenBlockTunes_IgnoreInline(m, e) ==
    ~(~BlockAt(m.blocks, m.cur).isEmpty /\ e.panel = "conversionToolbar")

canOpenBlockTunes(m, e) ==
    LET isEmptyBlock == BlockAt(m.blocks, m.cur).isEmpty
        conversionToolbarOpened == ~isEmptyBlock /\ e.panel = "conversionToolbar"
        inlineToolbarOpened ==
            ~isEmptyBlock /\ ~e.isCollapsed /\ e.panel = "inlineToolbar"
    IN  ~conversionToolbarOpened /\ ~inlineToolbarOpened

\* tabPressed(event)
tabPressed(m, e) ==
    LET cleared == clearSelection(Log(m, "preventDefault", NoIdx, NoArg))
        currentBlock == BlockAt(m.blocks, m.cur)
        canOpenToolbox == isDefault(currentBlock.name) /\ currentBlock.isEmpty
    IN  IF ~HasBlock(m.blocks, m.cur) THEN cleared
        ELSE IF canOpenToolbox THEN activateToolbox(cleared, e)
        ELSE IF canOpenBlockTunes(m, e) THEN activateBlockSettings(cleared, e)
        ELSE cleared

\* keyup(event)
keyup(m, e) ==
    IF e.shiftKey THEN m
    ELSE Log(m, "UI.checkEmptiness", NoIdx, NoArg)

\* dragOver(event): the block the event target lies in becomes a drop target.
\* No handler of BlockEvents reads Block.dropTarget, so the assignment is kept
\* as a call of the log.  A target outside every block leaves `block`
\* undefined and the assignment ends with a TypeError.
dragOver(m, e) ==
    IF ~HasBlock(m.blocks, e.target) THEN Thrown(m)
    ELSE Log(m, "block.dropTarget", e.target, "true")

\* dragLeave(event)
dragLeave(m, e) ==
    IF ~HasBlock(m.blocks, e.target) THEN Thrown(m)
    ELSE Log(m, "block.dropTarget", e.target, "false")

----------------------------------------------------------------------------
(* Events *)

Event(type, key) ==
    [type |-> type, key |-> key, shiftKey |-> FALSE, metaKey |-> FALSE,
     ctrlKey |-> FALSE, altKey |-> FALSE, panel |-> "none",
     flipperFocused |-> FALSE, isAtStart |-> FALSE, isAtEnd |-> FALSE,
     isCollapsed |-> TRUE, toolbarOpened |-> FALSE, isRtl |-> FALSE,
     input |-> 0, target |-> NoIdx]

\* the handler's view of the editor when it starts
Machine ==
    [blocks |-> blocks, cur |-> currentBlockIndex, pending |-> pending,
     created |-> {}, calls |-> <<>>]

Finish(m, e) ==
    /\ blocks' = m.blocks
    /\ currentBlockIndex' = m.cur
    /\ pending' = m.pending
    /\ created' = m.created
    /\ calls' = m.calls
    /\ ev' = e
    /\ pre' = [blocks |-> blocks, cur |-> currentBlockIndex, pending |-> pending]

\* Caret.isAtStart and Caret.isAtEnd as a handler can read them
CaretReads == BOOLEAN \X BOOLEAN

\* A value the handler does not get to read stays at its default in `ev`
Unread(default) == {default}

Idle == ev.type = "idle"

\* the timers of _.delay among the pending callbacks, and the promises
Timers(p) == Cardinality({k \in DOMAIN p : p[k].kind = "timer"})

Promises(p) == Len(p) - Timers(p)

CutsPending(p) == Cardinality({k \in DOMAIN p : p[k].kind = "cut"})

NoPre == [blocks |-> <<>>, cur |-> NoIdx, pending |-> <<>>]

\* the handler has returned: the event loop is free for the next event
Return ==
    /\ ~Idle
    /\ ev' = Event("idle", "NONE")
    /\ calls' = <<>>
    /\ created' = {}
    /\ pre' = NoPre
    /\ UNCHANGED <<blocks, currentBlockIndex, pending>>

\* keydown(event) with event.keyCode = ENTER.  event.metaKey is read by the
\* pre-processing only when it closes the toolbars, someFlipperButtonFocused
\* only behind someToolbarOpened, the caret only when the keydown is handled.
KeydownEnter ==
    /\ Idle
    /\ \E shift \in BOOLEAN, panel \in Panels :
        LET e1 == [Event("keydown", "ENTER") EXCEPT !.shiftKey = shift, !.panel = panel]
            hasCurrent == HasBlock(blocks, currentBlockIndex)
            lineBreaks ==
                hasCurrent /\ isLineBreaksEnabled(BlockAt(blocks, currentBlockIndex).name)
        IN  \E meta \in IF needToolbarClosing(e1) THEN BOOLEAN ELSE Unread(FALSE),
               focused \in IF hasCurrent /\ ~lineBreaks /\ panel # "none"
                           THEN BOOLEAN ELSE Unread(FALSE) :
                \E caret \in IF hasCurrent /\ ~lineBreaks /\ ~focused /\ ~shift
                             THEN CaretReads ELSE Unread(<<FALSE, FALSE>>) :
                    LET e == [e1 EXCEPT !.metaKey = meta, !.flipperFocused = focused,
                                        !.isAtStart = caret[1], !.isAtEnd = caret[2]]
                        m == enter(beforeKeydownProcessing(Machine, e), e)
                    IN  /\ Len(m.blocks) <= MaxBlocks
                        /\ Finish(m, e)

\* keydown(event) with event.keyCode = BACKSPACE.  The caret and the selection
\* are read only outside the block-removal branch, SelectionUtils.isCollapsed
\* only behind Caret.isAtStart.
KeydownBackspace ==
    /\ Idle
    /\ \E caret \in IF HasBlock(blocks, currentBlockIndex) /\ ~backspaceRemoves(Machine)
                   THEN CaretReads ELSE Unread(<<FALSE, FALSE>>) :
        \E collapsed \in IF caret[1] THEN BOOLEAN ELSE Unread(TRUE) :
            LET e == [Event("keydown", "BACKSPACE") EXCEPT
                        !.isAtStart = caret[1], !.isAtEnd = caret[2],
                        !.isCollapsed = collapsed]
                m == backspace(beforeKeydownProcessing(Machine, e), e)
            IN  /\ m.pending = pending \/ Promises(m.pending) <= MaxPending
                /\ Finish(m, e)

\* handleCommandC(event)
CommandC ==
    /\ Idle
    /\ Finish(handleCommandC(Machine), Event("copy", "NONE"))

\* handleCommandX(event)
CommandX ==
    /\ Idle
    /\ LET m == handleCommandX(Machine)
       IN  /\ \/ m.pending = pending
              \/ Promises(m.pending) <= MaxPending
              \/ /\ CutsPending(m.pending) = Promises(m.pending)
                 /\ CutsPending(m.pending) <= MaxCuts
           /\ Finish(m, Event("cut", "NONE"))

Without(s, k) == SubSeq(s, 1, k - 1) \o SubSeq(s, k + 1, Len(s))

\* the promise of copySelectedBlocks settles and the cut goes on
CopySettled ==
    /\ Idle
    /\ \E k \in DOMAIN pending :
        /\ pending[k].kind = "cut"
        /\ Finish(cutContinuation([Machine EXCEPT !.pending = Without(@, k)]),
                  Event("copySettled", "NONE"))

\* the promise of BlockManager.mergeBlocks settles and mergeBlocks goes on
MergeSettled ==
    /\ Idle
    /\ \E k \in DOMAIN pending :
        /\ pending[k].kind = "merge"
        /\ Finish(mergeContinuation([Machine EXCEPT !.pending = Without(@, k)],
                                    pending[k]),
                  Event(IF HasBlock(blocks, pending[k].index)
                        THEN "mergeSettled" ELSE "mergeRejected", "NONE"))

\* UI.someToolbarOpened as the arrow handlers read it
SomePanel == {"none", "toolbox"}

\* Caret.isAtStart and Caret.isAtEnd, each left at FALSE when it is not read
CaretReadsOf(needStart, needEnd) ==
    {<<c[1] /\ needStart, c[2] /\ needEnd>> : c \in CaretReads}

\* keydown(event) with an arrow key.  event.metaKey is read behind
\* event.shiftKey, the toolbars only when nothing was thrown, the caret and
\* isRtl only when the keydown is not left to the flipper.
KeydownArrow ==
    /\ Idle
    /\ \E key \in {"DOWN", "RIGHT", "UP", "LEFT"}, shift \in BOOLEAN :
        \E meta \in IF shift /\ key \in {"DOWN", "UP"} THEN BOOLEAN ELSE Unread(FALSE) :
            LET e1 == [Event("keydown", key) EXCEPT !.shiftKey = shift, !.metaKey = meta]
                runs == ~Threw(IF key = "DOWN" THEN reorderDown(Machine, e1)
                               ELSE IF key = "UP" THEN reorderUp(Machine, e1)
                               ELSE Machine)
                forward == key \in {"DOWN", "RIGHT"}
            IN  \E panel \in IF runs THEN SomePanel ELSE Unread("none") :
                    LET reads == runs /\ ~(panel # "none" /\ ~shift)
                    IN  \E rtl \in IF reads /\ key \in {"LEFT", "RIGHT"}
                                    THEN BOOLEAN ELSE Unread(FALSE) :
                            \E caret \in IF reads
                                          THEN CaretReadsOf(~forward \/ rtl, forward \/ rtl)
                                          ELSE Unread(<<FALSE, FALSE>>) :
                                LET e == [e1 EXCEPT !.panel = panel, !.isRtl = rtl,
                                                    !.isAtStart = caret[1],
                                                    !.isAtEnd = caret[2]]
                                    m == keydownArrow(beforeKeydownProcessing(Machine, e), e)
                                IN  /\ m.pending = pending \/ Timers(m.pending) <= MaxTimers
                                    /\ Finish(m, e)

\* keydown(event) with event.keyCode = TAB.  The toolbars are read only for a
\* block that is not empty, Toolbar.opened only when something is activated.
KeydownTab ==
    /\ Idle
    /\ LET hasCurrent == HasBlock(blocks, currentBlockIndex)
           isEmptyBlock == hasCurrent /\ BlockAt(blocks, currentBlockIndex).isEmpty
           canOpenToolbox ==
               isEmptyBlock /\ isDefault(BlockAt(blocks, currentBlockIndex).name)
       IN  \E panel \in IF ~hasCurrent \/ canOpenToolbox THEN Unread("none")
                         ELSE IF isEmptyBlock THEN {"none", "blockSettings"}
                         ELSE Panels,
              collapsed \in IF hasCurrent /\ ~isEmptyBlock
                             THEN BOOLEAN ELSE Unread(TRUE) :
            LET e1 == [Event("keydown", "TAB") EXCEPT
                          !.panel = panel, !.isCollapsed = collapsed]
                activates == hasCurrent /\ (canOpenToolbox \/ canOpenBlockTunes(Machine, e1))
            IN  \E opened \in IF activates THEN BOOLEAN ELSE Unread(FALSE) :
                    LET e == [e1 EXCEPT !.toolbarOpened = opened]
                    IN  Finish(tabPressed(beforeKeydownProcessing(Machine, e), e), e)

\* keydown(event) with the key of a character: only the pre-processing acts.
\* The other modifiers are read behind event.shiftKey.
KeydownChar ==
    /\ Idle
    /\ \E shift \in BOOLEAN :
        \E ctrl \in IF shift THEN Unread(FALSE) ELSE BOOLEAN :
            LET e == [Event("keydown", "CHAR") EXCEPT !.shiftKey = shift, !.ctrlKey = ctrl]
            IN  Finish(beforeKeydownProcessing(Machine, e), e)

\* a timer of _.delay fires
TimerFired ==
    /\ Idle
    /\ Timers(pending) > 0
    /\ \E input \in IF /\ HasBlock(blocks, currentBlockIndex)
                        /\ BlockAt(blocks, currentBlockIndex).nInputs > 0
                     THEN 0 .. BlockAt(blocks, currentBlockIndex).nInputs - 1
                     ELSE Unread(0) :
        Finish(delayedRefresh([Machine EXCEPT !.pending = Tail(@)], input),
               [Event("timerFired", "NONE") EXCEPT !.input = input])

\* keyup(event)
Keyup ==
    /\ Idle
    /\ \E shift \in BOOLEAN :
        LET e == [Event("keyup", "NONE") EXCEPT !.shiftKey = shift]
        IN  Finish(keyup(Machine, e), e)

\* dragOver(event) and dragLeave(event), with the event target in one of the
\* blocks or in none
DragOver ==
    /\ Idle
    /\ \E k \in {NoIdx} \cup (0 .. Len(blocks) - 1) :
        LET e == [Event("dragOver", "NONE") EXCEPT !.target = k]
        IN  Finish(dragOver(Machine, e), e)

DragLeave ==
    /\ Idle
    /\ \E k \in {NoIdx} \cup (0 .. Len(blocks) - 1) :
        LET e == [Event("dragLeave", "NONE") EXCEPT !.target = k]
        IN  Finish(dragLeave(Machine, e), e)

Init ==
    /\ blocks \in InitDocs
    /\ currentBlockIndex \in 0 .. Len(blocks) - 1
    /\ pending = <<>>
    /\ created = {}
    /\ calls = <<>>
    /\ ev = Event("idle", "NONE")
    /\ pre = NoPre

\* every handler of BlockEvents, the promises that settle, the timers that fire
Next ==
    \/ KeydownEnter
    \/ KeydownBackspace
    \/ KeydownArrow
    \/ KeydownTab
    \/ KeydownChar
    \/ Keyup
    \/ DragOver
    \/ DragLeave
    \/ CommandC
    \/ CommandX
    \/ CopySettled
    \/ MergeSettled
    \/ TimerFired
    \/ Return

Spec == Init /\ [][Next]_vars

\* The same editor started on two paragraphs
InitParagraphs ==
    /\ blocks = <<Paragraph, Paragraph>>
    /\ currentBlockIndex \in 0 .. Len(blocks) - 1
    /\ pending = <<>>
    /\ created = {}
    /\ calls = <<>>
    /\ ev = Event("idle", "NONE")
    /\ pre = NoPre

SpecParagraphs == InitParagraphs /\ [][Next]_vars

\* The same editor started on a gallery with a caption and a list
InitLists ==
    /\ blocks \in ListDocs
    /\ currentBlockIndex \in 0 .. Len(blocks) - 1
    /\ pending = <<>>
    /\ created = {}
    /\ calls = <<>>
    /\ ev = Event("idle", "NONE")
    /\ pre = NoPre

SpecLists == InitLists /\ [][Next]_vars

\* The event loop: a handler that runs returns, and a promise that can settle
\* is not put off for ever
FairMerges == SpecParagraphs /\ WF_vars(Return) /\ SF_vars(MergeSettled)

\* The event loop: a handler that runs returns, and a timer that can fire is
\* not put off for ever
FairTimers == SpecParagraphs /\ WF_vars(Return) /\ SF_vars(TimerFired)

----------------------------------------------------------------------------
(* Vocabulary of the properties *)

\* the current block when the handler started
PreCur == BlockAt(pre.blocks, pre.cur)

\* the block before it, when there is one
PrePrev == BlockAt(pre.blocks, pre.cur - 1)

\* the positions in `calls` of the calls of an operation
CallsOf(op) == {k \in DOMAIN calls : calls[k].op = op}

Called(op) == CallsOf(op) # {}

\* the keydown found a current block
HadCurrent == HasBlock(pre.blocks, pre.cur)

IsEnter == ev.type = "keydown" /\ ev.key = "ENTER" /\ HadCurrent

IsBackspace == ev.type = "keydown" /\ ev.key = "BACKSPACE" /\ HadCurrent

\* one of the three cases in which Enter is left to the default behaviour
EnterIsDeferred ==
    /\ IsEnter
    /\ \/ isLineBreaksEnabled(PreCur.name)
       \/ (ev.panel # "none" /\ ev.flipperFocused)
       \/ ev.shiftKey

EnterIsHandled == IsEnter /\ ~EnterIsDeferred

\* the insert-above branch is the one taken
EnterAbove == EnterIsHandled /\ ev.isAtStart /\ ~PreCur.hasMedia

\* exactly one block was inserted, at index i and of type t, by one call of
\* insertDefaultBlockAtIndex(i, ..., t), and nothing was split or removed
InsertedOne(i, t) ==
    /\ \E k \in DOMAIN calls :
        /\ CallsOf("insertDefaultBlockAtIndex") = {k}
        /\ calls[k].idx = i
    /\ ~Called("split")
    /\ ~Called("removeBlock")
    /\ created = {i}
    /\ Len(blocks) = Len(pre.blocks) + 1
    /\ BlockAt(blocks, i).name = t
    /\ \A j \in 0 .. Len(pre.blocks) - 1 :
        BlockAt(blocks, RefAfterInsert(j, i)).name = BlockAt(pre.blocks, j).name

----------------------------------------------------------------------------
(* C1 *)

\* C1 as stated: every handled Enter with the caret at the start of the
\* current block inserts a block at the current block's index, of type list
\* when the current block is a list.
C1_AsStated ==
    (EnterIsHandled /\ ev.isAtStart) =>
        InsertedOne(pre.cur, IF PreCur.name = "list" THEN "list" ELSE defaultBlock)

\* C1 amended: every handled Enter with the caret at the start of a current
\* block that has no media inserts one block of the default type
\* (config.defaultBlock) at the current block's index, also when the current
\* block is a list.  At the start of a block that has media nothing is
\* inserted at the current block's index.
C1_InsertAbove ==
    /\ EnterAbove => InsertedOne(pre.cur, defaultBlock)
    /\ (EnterIsHandled /\ ev.isAtStart /\ PreCur.hasMedia) =>
        \A k \in CallsOf("insertDefaultBlockAtIndex") : calls[k].idx # pre.cur

\* Enter at the start of a list: the block above it is new and a paragraph
C1_Witness ==
    /\ EnterAbove
    /\ PreCur.name = "list"
    /\ ~ev.isAtEnd
    /\ created = {pre.cur}
    /\ BlockAt(blocks, pre.cur).name = "paragraph"
    /\ BlockAt(blocks, pre.cur + 1).name = "list"

----------------------------------------------------------------------------
(* C2 *)

\* C2 as stated: every handled Enter with the caret at the end of the current
\* block inserts a block at currentBlockIndex + 1, of type list when the
\* current block is a list and of the default type otherwise; nothing is split.
C2_AsStated ==
    (EnterIsHandled /\ ev.isAtEnd) =>
        InsertedOne(pre.cur + 1, IF PreCur.name = "list" THEN "list" ELSE defaultBlock)

\* C2 amended: the same, for every handled Enter with the caret at the end
\* that does not take the insert-above branch (the caret is not also at the
\* start, or the current block has media).
C2_AppendAfter ==
    (EnterIsHandled /\ ev.isAtEnd /\ ~EnterAbove) =>
        InsertedOne(pre.cur + 1, IF PreCur.name = "list" THEN "list" ELSE defaultBlock)

\* Enter at the end of a list that is not the last block: a list follows it
C2_Witness ==
    /\ EnterIsHandled
    /\ ev.isAtEnd
    /\ ~ev.isAtStart
    /\ PreCur.name = "list"
    /\ pre.cur + 1 < Len(pre.blocks)
    /\ created = {pre.cur + 1}
    /\ BlockAt(blocks, pre.cur + 1).name = "list"

----------------------------------------------------------------------------
(* C3 *)

\* C3: every handled Enter with the caret neither at the start nor at the end
\* calls BlockManager.split exactly once and insertDefaultBlockAtIndex never;
\* the type passed is the current block's name when it is one of paragraph,
\* list, header, header01, header02, header03, and "paragraph" otherwise.
C3_Split ==
    (EnterIsHandled /\ ~ev.isAtStart /\ ~ev.isAtEnd) =>
        /\ Cardinality(CallsOf("split")) = 1
        /\ ~Called("insertDefaultBlockAtIndex")
        /\ \A k \in CallsOf("split") :
            calls[k].arg =
                IF PreCur.name \in {"paragraph", "list", "header", "header01",
                                    "header02", "header03"}
                THEN PreCur.name ELSE "paragraph"
        /\ created = {pre.cur + 1}
        /\ \A k \in CallsOf("split") : BlockAt(blocks, pre.cur + 1).name = calls[k].arg

\* Enter inside a list: the list is split and the new block is a list
C3_Witness ==
    /\ EnterIsHandled
    /\ ~ev.isAtStart
    /\ ~ev.isAtEnd
    /\ PreCur.name = "list"
    /\ calls[1] = Call("split", NoIdx, "list")
    /\ BlockAt(blocks, pre.cur + 1).name = "list"

----------------------------------------------------------------------------
(* C4 *)

\* C4: when the tool enables line breaks, or a toolbar is open with a flipper
\* button focused, or shift is held, the Enter handler inserts and splits no
\* block, does not set the caret, does not open or move the toolbar and does
\* not prevent the default action.
C4_Deferred ==
    EnterIsDeferred =>
        /\ ~Called("insertDefaultBlockAtIndex")
        /\ ~Called("split")
        /\ ~Called("Caret.setToBlock")
        /\ ~Called("Toolbar.moveAndOpen")
        /\ ~Called("preventDefault")
        /\ created = {}
        /\ Len(blocks) = Len(pre.blocks)
        /\ currentBlockIndex = pre.cur

\* Shift+Enter alone defers: no line-break tool, no toolbar open
C4_Witness ==
    /\ IsEnter
    /\ ev.shiftKey
    /\ ~isLineBreaksEnabled(PreCur.name)
    /\ ev.panel = "none"
    /\ calls = <<>>

----------------------------------------------------------------------------
(* C5 *)

\* the last three calls of the handler: the caret is set to block t, the
\* toolbar is moved to and opened on block t, the default action is prevented
EndsOn(t) ==
    /\ Len(calls) >= 3
    /\ calls[Len(calls) - 2] = Call("Caret.setToBlock", t, DEFAULT)
    /\ calls[Len(calls) - 1] = Call("Toolbar.moveAndOpen", t, NoArg)
    /\ calls[Len(calls)] = Call("preventDefault", NoIdx, NoArg)
    /\ Cardinality(CallsOf("Caret.setToBlock")) = 1
    /\ Cardinality(CallsOf("Toolbar.moveAndOpen")) = 1

\* C5 as stated: after every handled Enter the caret is set to the block the
\* Enter created, the toolbar is moved to and opened on that block, and the
\* default action is prevented.
C5_AsStated ==
    EnterIsHandled => \E t \in created : EndsOn(t)

\* C5 amended: after every handled Enter the caret is set to one block, the
\* toolbar is moved to and opened on that same block and the default action is
\* prevented; the block is the one the Enter created, except after an
\* insert-above at a block that is not a list, where it is the block that was
\* current before the Enter (now below the created one).
C5_Refocus ==
    EnterIsHandled =>
        IF EnterAbove /\ PreCur.name # "list"
        THEN /\ EndsOn(pre.cur + 1)
             /\ created = {pre.cur}
             /\ currentBlockIndex = pre.cur + 1
        ELSE /\ \E t \in created : EndsOn(t) /\ currentBlockIndex = t
             /\ Cardinality(created) = 1

\* Enter at the start of a paragraph: the caret stays in the old block
C5_Witness ==
    /\ EnterAbove
    /\ PreCur.name = "paragraph"
    /\ ~PreCur.isEmpty
    /\ EndsOn(pre.cur + 1)
    /\ created = {pre.cur}

----------------------------------------------------------------------------
(* C6 *)

\* Backspace takes the block-removal branch
BackspaceRemoves ==
    /\ IsBackspace
    /\ (PreCur.selected \/ (PreCur.isEmpty /\ PreCur.inputIndex = 0))

\* the previous block exists, has no inputs and is a media block
PrevIsBareMedia ==
    /\ pre.cur > 0
    /\ PrePrev.nInputs = 0
    /\ PrePrev.name \in {"image", "gallery"}

\* C6: a Backspace on a current block that is selected, or empty with its
\* current input being its first input, removes exactly one block: the
\* previous block when it exists, has no inputs and is a media block, the
\* current block otherwise.  The tool's line-break opt-in and merging do not
\* come into it.
C6_RemovesOne ==
    BackspaceRemoves =>
        /\ \E k \in DOMAIN calls :
            /\ CallsOf("removeBlock") = {k}
            /\ calls[k].idx = IF PrevIsBareMedia THEN pre.cur - 1 ELSE pre.cur
        /\ ~Called("BlockManager.mergeBlocks")
        /\ ~Called("Caret.navigatePrevious")
        /\ ~Called("Caret.createShadow")
        /\ IF Len(pre.blocks) = 1
           THEN Len(blocks) = 1 /\ created = {0}
           ELSE /\ Len(blocks) = Len(pre.blocks) - 1
                /\ created = {}
                /\ LET i == IF PrevIsBareMedia THEN pre.cur - 1 ELSE pre.cur
                   IN  \A j \in 0 .. Len(pre.blocks) - 1 :
                        j # i => BlockAt(blocks, RefAfterRemove(j, i)).name
                                    = BlockAt(pre.blocks, j).name

\* Backspace in a selected line-break block after an image without inputs:
\* the image is removed
C6_Witness ==
    /\ BackspaceRemoves
    /\ PrevIsBareMedia
    /\ isLineBreaksEnabled(PreCur.name)
    /\ \E k \in CallsOf("removeBlock") : calls[k].idx = pre.cur - 1
    /\ BlockAt(blocks, pre.cur - 1).name = PreCur.name

----------------------------------------------------------------------------
(* C7 *)

\* C7: a Backspace that takes the block-removal branch prevents the default
\* action, removes the block, sets the caret to the block that is current
\* after the removal, at START when the current block index before the
\* removal was 0 and at END when it was greater, then closes the toolbar and
\* then clears the block selection.
C7_AfterRemoval ==
    BackspaceRemoves =>
        /\ Len(calls) = 5
        /\ calls[1] = Call("preventDefault", NoIdx, NoArg)
        /\ calls[2].op = "removeBlock"
        /\ calls[3] = Call("Caret.setToBlock", currentBlockIndex,
                           IF pre.cur = 0 THEN START ELSE END)
        /\ calls[4] = Call("Toolbar.close", NoIdx, NoArg)
        /\ calls[5] = Call("BlockSelection.clearSelection", NoIdx, NoArg)
        /\ ~anyBlockSelected(blocks)
        /\ HasBlock(blocks, currentBlockIndex)

\* Backspace in an empty second block: the caret goes to the end of the first
C7_Witness ==
    /\ BackspaceRemoves
    /\ pre.cur = 1
    /\ PreCur.isEmpty
    /\ ~PrevIsBareMedia
    /\ Len(calls) = 5
    /\ calls[3] = Call("Caret.setToBlock", 0, END)

----------------------------------------------------------------------------
(* C8 *)

\* the merge routine ran: each of its paths starts with one of these calls
MergeRoutineRan ==
    \/ Called("BlockManager.mergeBlocks")
    \/ Called("Caret.navigatePrevious")
    \/ Called("removeBlock")

\* C8: a Backspace outside the block-removal branch runs the merge routine,
\* and prevents the default action, if and only if the caret is at the start,
\* the selection is collapsed, the current input is the first input and the
\* current block is not the first block; otherwise it changes nothing and
\* calls nothing.
C8_MergeIff ==
    (IsBackspace /\ ~BackspaceRemoves) =>
        LET can == /\ ev.isAtStart
                   /\ ev.isCollapsed
                   /\ PreCur.inputIndex = 0
                   /\ pre.cur > 0
        IN  /\ MergeRoutineRan <=> can
            /\ Called("preventDefault") <=> can
            /\ can => calls[1] = Call("preventDefault", NoIdx, NoArg)
            /\ ~can => /\ calls = <<>>
                       /\ blocks = pre.blocks
                       /\ currentBlockIndex = pre.cur
                       /\ pending = pre.pending

\* Backspace at the start of a line-break block that is not the first block
C8_Witness ==
    /\ IsBackspace
    /\ ~BackspaceRemoves
    /\ isLineBreaksEnabled(PreCur.name)
    /\ ev.isAtStart
    /\ ev.isCollapsed
    /\ pre.cur > 0
    /\ MergeRoutineRan
    /\ Called("preventDefault")

----------------------------------------------------------------------------
(* C9 *)

\* C9: BlockManager.mergeBlocks(previous, current) is called only from a
\* Backspace whose current and previous blocks have the same type name and
\* whose previous block is mergeable.
C9_MergeOnlyIfMergeable ==
    Called("BlockManager.mergeBlocks") =>
        /\ IsBackspace
        /\ pre.cur > 0
        /\ PreCur.name = PrePrev.name
        /\ mergeable(PrePrev.name)
        /\ \A k \in CallsOf("BlockManager.mergeBlocks") : calls[k].idx = pre.cur - 1
        /\ Len(pending) = Len(pre.pending) + 1

\* Backspace at the start of a paragraph that follows a paragraph
C9_Witness ==
    /\ IsBackspace
    /\ Called("BlockManager.mergeBlocks")
    /\ PreCur.name = "paragraph"
    /\ PrePrev.name = "paragraph"
    /\ blocks = pre.blocks

----------------------------------------------------------------------------
(* C10 *)

\* C10: a cut with a block selected only starts the copy; the blocks are
\* removed by the continuation, which runs once the copy has settled and
\* calls, in this order, removeSelectedBlocks, insertDefaultBlockAtIndex with
\* the index the removal returned, Caret.setToBlock with the inserted block
\* and START, and clearSelection.  A cut with no block selected does nothing.
C10_CutOrder ==
    /\ ev.type = "cut" =>
        IF anyBlockSelected(pre.blocks)
        THEN /\ calls = <<Call("BlockSelection.copySelectedBlocks", NoIdx, NoArg)>>
             /\ blocks = pre.blocks
             /\ CutsPending(pending) = CutsPending(pre.pending) + 1
        ELSE /\ calls = <<>>
             /\ blocks = pre.blocks
             /\ currentBlockIndex = pre.cur
             /\ pending = pre.pending
    /\ ev.type = "copySettled" =>
        /\ CutsPending(pre.pending) = CutsPending(pending) + 1
        /\ \E i \in NoIdx .. Len(pre.blocks) - 1 :
            /\ calls = << Call("removeSelectedBlocks", i, NoArg),
                          Call("insertDefaultBlockAtIndex", i, defaultBlock),
                          Call("Caret.setToBlock", i, START),
                          Call("BlockSelection.clearSelection", NoIdx, NoArg) >>
            /\ i # NoIdx =>
                /\ i \in created
                /\ currentBlockIndex = i
                /\ BlockAt(blocks, i).name = defaultBlock
                /\ \A j \in 0 .. i - 1 : ~BlockAt(pre.blocks, j).selected
                /\ BlockAt(pre.blocks, i).selected
        /\ ~anyBlockSelected(blocks)
    /\ ev.type \notin {"cut", "copySettled", "idle"} =>
        /\ ~Called("removeSelectedBlocks")
        /\ CutsPending(pending) = CutsPending(pre.pending)

\* the copy of a cut has settled and the selected second block was replaced
C10_Witness ==
    /\ ev.type = "copySettled"
    /\ Len(pre.blocks) = 2
    /\ ~BlockAt(pre.blocks, 0).selected
    /\ BlockAt(pre.blocks, 1).selected
    /\ Len(blocks) = 2
    /\ created = {1}
    /\ currentBlockIndex = 1

----------------------------------------------------------------------------
(* Vocabulary of the properties on the other keys *)

IsKeydown(key) == ev.type = "keydown" /\ ev.key = key

\* the handler's view of the editor when it started
PreMachine ==
    [blocks |-> pre.blocks, cur |-> pre.cur, pending |-> pre.pending,
     created |-> {}, calls |-> <<>>]

\* the calls an operation was called with, in order
CallsTo(ops) == SelectSeq(calls, LAMBDA c : c.op \in ops)

\* the names of the blocks of a document, in order
Names(bs) == [k \in DOMAIN bs |-> bs[k].name]

----------------------------------------------------------------------------
(* C11 *)

\* the toolbar that keeps Tab for itself: the conversion toolbar open on a
\* block that is not empty, or the inline toolbar open on one with a selection
\* that is not collapsed
TabIsOwned ==
    /\ ~PreCur.isEmpty
    /\ \/ ev.panel = "conversionToolbar"
       \/ (ev.panel = "inlineToolbar" /\ ~ev.isCollapsed)

\* C11: Tab always prevents the default action and clears the block
\* selection.  With a current block that is empty and of the default type the
\* toolbox is opened and the block settings are not; with any other current
\* block the toolbox is not opened and the block settings are opened (by one
\* call of BlockSettings.open, made unless they are open already) exactly when
\* neither the conversion toolbar nor the inline toolbar keeps the key.  No
\* Tab opens both, and with no current block it opens neither.
C11_Tab ==
    IsKeydown("TAB") =>
        /\ SubSeq(calls, 1, 2) = << Call("preventDefault", NoIdx, NoArg),
                                    Call("BlockSelection.clearSelection", NoIdx, NoArg) >>
        /\ ~anyBlockSelected(blocks)
        /\ Names(blocks) = Names(pre.blocks)
        /\ ~(Called("Toolbox.open") /\ Called("BlockSettings.open"))
        /\ Cardinality(CallsOf("Toolbox.open")) <= 1
        /\ Cardinality(CallsOf("BlockSettings.open")) <= 1
        /\ IF ~HadCurrent
           THEN ~Called("Toolbox.open") /\ ~Called("BlockSettings.open")
           ELSE IF PreCur.isEmpty /\ PreCur.name = defaultBlock
           THEN Called("Toolbox.open") /\ ~Called("BlockSettings.open")
           ELSE /\ ~Called("Toolbox.open")
                /\ (Called("BlockSettings.open") \/ ev.panel = "blockSettings")
                        <=> ~TabIsOwned
                /\ ev.panel = "blockSettings" => ~Called("BlockSettings.open")

\* Tab in a block with text while the inline toolbar is open over a selection:
\* the selection of blocks is cleared and nothing is opened
C11_Witness ==
    /\ IsKeydown("TAB")
    /\ HadCurrent
    /\ ~PreCur.isEmpty
    /\ anyBlockSelected(pre.blocks)
    /\ ev.panel = "inlineToolbar"
    /\ ~ev.isCollapsed
    /\ Len(calls) = 2

----------------------------------------------------------------------------
(* C12 *)

\* the keydown asks to move an image block: Shift+Cmd with the arrow key
MovesImage(key) ==
    /\ IsKeydown(key)
    /\ ev.shiftKey
    /\ ev.metaKey
    /\ HadCurrent
    /\ PreCur.name = "image"

\* C12: Shift+Cmd+ArrowDown on an image block that is the last block and
\* Shift+Cmd+ArrowUp on an image block that is the first block throw an Error
\* and nothing else happens in the keydown: no scroll, no move, no call of the
\* arrow handler, and the blocks, the current block and the pending callbacks
\* are as they were.
C12_ThrowAborts ==
    \/ MovesImage("DOWN") /\ pre.cur = Len(pre.blocks) - 1
    \/ MovesImage("UP") /\ pre.cur = 0
    => /\ calls = <<Call("throw", NoIdx, "Error")>>
       /\ blocks = pre.blocks
       /\ currentBlockIndex = pre.cur
       /\ pending = pre.pending

\* Shift+Cmd+ArrowUp on an image that is the first of several blocks has thrown
C12_Witness ==
    /\ MovesImage("UP")
    /\ pre.cur = 0
    /\ Len(pre.blocks) > 1
    /\ Called("throw")

----------------------------------------------------------------------------
(* C13 *)

\* a sequence with the elements at the positions i and j exchanged
Swapped(s, i, j) ==
    [k \in DOMAIN s |-> IF k = i THEN s[j] ELSE IF k = j THEN s[i] ELSE s[k]]

\* C13: Shift+Cmd+ArrowDown on an image block with a block below it calls
\* BlocksAPI.move once, with index + 1, after one scroll, and the image has
\* changed places with the block below; Shift+Cmd+ArrowUp on an image block
\* with a block above it does the same with index - 1.  No other keydown
\* calls BlocksAPI.move or scrolls, and an arrow keydown that does not move an
\* image leaves the order of the blocks as it was.
C13_MoveByOne ==
    ev.type = "keydown" =>
        LET down == MovesImage("DOWN") /\ pre.cur < Len(pre.blocks) - 1
            up == MovesImage("UP") /\ pre.cur > 0
            moves == CallsTo({"BlocksAPI.move", "window.scrollTo", "window.scrollBy"})
        IN  /\ down =>
                /\ moves = << Call("window.scrollTo", NoIdx, NoArg),
                              Call("BlocksAPI.move", pre.cur + 1, NoArg) >>
                /\ Names(blocks) = Swapped(Names(pre.blocks), pre.cur + 1, pre.cur + 2)
            /\ up =>
                /\ moves = << Call("window.scrollBy", NoIdx, NoArg),
                              Call("BlocksAPI.move", pre.cur - 1, NoArg) >>
                /\ Names(blocks) = Swapped(Names(pre.blocks), pre.cur + 1, pre.cur)
            /\ ~down /\ ~up =>
                /\ moves = <<>>
                /\ ev.key \in {"DOWN", "RIGHT", "UP", "LEFT"} =>
                        Names(blocks) = Names(pre.blocks)

\* the image at the top of three blocks was moved below the second block
C13_Witness ==
    /\ MovesImage("DOWN")
    /\ pre.cur = 0
    /\ Len(pre.blocks) = 3
    /\ Names(blocks) = <<"code", "image", "paragraph">>
    /\ currentBlockIndex = 1
    /\ Called("BlocksAPI.move")

----------------------------------------------------------------------------
(* C14 *)

\* the calls the pre-processing of the keydown made
PreProcessed == beforeKeydownProcessing(PreMachine, ev).calls

\* a modifier key is held
ModifierHeld == ev.ctrlKey \/ ev.metaKey \/ ev.altKey \/ ev.shiftKey

\* Enter chooses an item of an open toolbox, block settings, inline toolbar
\* or conversion toolbar
EnterInPanel == ev.key = "ENTER" /\ ev.panel # "none"

\* C14: every keydown starts with the calls of the pre-processing.  For a
\* printable key with no modifier held (other than Enter while one of the
\* four toolbars is open) they are Toolbar.close, ConversionToolbar.close,
\* BlockManager.clearFocused and BlockSelection.clearSelection; for Enter
\* while one of the four toolbars is open, and for Tab, there are none.  The
\* pre-processing clears the focus or the selection only for a printable key
\* with no modifier held.
C14_PreProcessing ==
    ev.type = "keydown" =>
        LET ops == [k \in DOMAIN PreProcessed |-> PreProcessed[k].op]
            Did(op) == \E k \in DOMAIN ops : ops[k] = op
        IN  /\ Len(PreProcessed) <= Len(calls)
            /\ SubSeq(calls, 1, Len(PreProcessed)) = PreProcessed
            /\ isPrintableKey(ev.key) /\ ~ModifierHeld /\ ~EnterInPanel =>
                    ops = << "Toolbar.close", "ConversionToolbar.close",
                             "BlockManager.clearFocused",
                             "BlockSelection.clearSelection" >>
            /\ EnterInPanel \/ ev.key = "TAB" => ops = <<>>
            /\ Did("BlockManager.clearFocused") \/ Did("BlockSelection.clearSelection")
                    => isPrintableKey(ev.key) /\ ~ModifierHeld

\* a character typed with ctrl held over a selected block: the toolbars are
\* closed and the selection stays
C14_Witness ==
    /\ IsKeydown("CHAR")
    /\ ev.ctrlKey
    /\ ~ev.shiftKey
    /\ anyBlockSelected(blocks)
    /\ calls = << Call("Toolbar.close", NoIdx, NoArg),
                  Call("ConversionToolbar.close", NoIdx, NoArg) >>

----------------------------------------------------------------------------
(* C15 *)

\* Backspace went into the merge routine
MergeEntered == IsBackspace /\ ~BackspaceRemoves /\ Called("preventDefault")

\* the current block and the one before it can be merged
PreMergeable == PreCur.name = PrePrev.name /\ mergeable(PrePrev.name)

\* C15: when the merge routine runs on blocks that cannot be merged and the
\* previous block has no inputs or is empty, the previous block is removed,
\* the caret is set to the current block and the toolbar is closed; when the
\* previous block has inputs and is not empty, Caret.navigatePrevious is
\* called once, no block is removed, and the toolbar is closed exactly when
\* the caret has moved to the previous block.
C15_NotMergeable ==
    (MergeEntered /\ ~PreMergeable) =>
        IF PrePrev.nInputs = 0 \/ PrePrev.isEmpty
        THEN /\ calls = << Call("preventDefault", NoIdx, NoArg),
                           Call("removeBlock", pre.cur - 1, NoArg),
                           Call("Caret.setToBlock", pre.cur - 1, DEFAULT),
                           Call("Toolbar.close", NoIdx, NoArg) >>
             /\ blocks = RemoveSeq(pre.blocks, pre.cur - 1)
             /\ currentBlockIndex = pre.cur - 1
        ELSE /\ SubSeq(calls, 1, 2) = << Call("preventDefault", NoIdx, NoArg),
                                         Call("Caret.navigatePrevious", NoIdx, NoArg) >>
             /\ CallsTo({"removeBlock", "BlockManager.mergeBlocks"}) = <<>>
             /\ Names(blocks) = Names(pre.blocks)
             /\ currentBlockIndex \in {pre.cur, pre.cur - 1}
             /\ IF currentBlockIndex = pre.cur - 1
                THEN SubSeq(calls, 3, Len(calls)) = <<Call("Toolbar.close", NoIdx, NoArg)>>
                ELSE Len(calls) = 2

\* Backspace at the start of a block below an image without inputs: the
\* image was removed
C15_Witness ==
    /\ MergeEntered
    /\ PrePrev.name = "image"
    /\ PrePrev.nInputs = 0
    /\ Called("removeBlock")
    /\ Len(blocks) = Len(pre.blocks) - 1

----------------------------------------------------------------------------
(* C16 *)

MergesPending(p) == Cardinality({k \in DOMAIN p : p[k].kind = "merge"})

\* the order of the steps of a merge, in the calls of one event
C16_Order ==
    /\ Called("BlockManager.mergeBlocks") =>
        /\ calls = << Call("preventDefault", NoIdx, NoArg),
                      Call("Caret.createShadow", pre.cur - 1, NoArg),
                      Call("BlockManager.mergeBlocks", pre.cur - 1, NoArg) >>
        /\ MergesPending(pending) = MergesPending(pre.pending) + 1
    /\ Called("Caret.createShadow") => Called("BlockManager.mergeBlocks")
    /\ Called("Caret.restoreCaret") => ev.type = "mergeSettled"
    /\ ev.type = "mergeSettled" =>
        /\ calls = << Call("Caret.restoreCaret", currentBlockIndex, NoArg),
                      Call("pluginsContent.normalize", currentBlockIndex, NoArg),
                      Call("Toolbar.close", NoIdx, NoArg) >>
        /\ MergesPending(pending) = MergesPending(pre.pending) - 1
    /\ ev.type \notin {"keydown", "mergeSettled", "mergeRejected", "idle"} =>
        MergesPending(pending) = MergesPending(pre.pending)

\* C16: a merge calls Caret.createShadow on the target block and then starts
\* BlockManager.mergeBlocks, and neither restores the caret nor closes the
\* toolbar in that keydown; Caret.restoreCaret and then, after the target's
\* content is normalized, Toolbar.close are called, once each, when the
\* promise of one pending merge is fulfilled, and
\* the caret is restored in no other event.  With a fair event loop a pending
\* merge leads to the event in which its promise settles.
C16_MergeOrder ==
    /\ []C16_Order
    /\ (MergesPending(pending) > 0) ~> (ev.type \in {"mergeSettled", "mergeRejected"})

\* the merge of two blocks has settled: one block less, the caret restored
C16_Witness ==
    /\ ev.type = "mergeSettled"
    /\ Len(pre.blocks) = 2
    /\ Len(blocks) = 1
    /\ currentBlockIndex = 0
    /\ Called("Caret.restoreCaret")

----------------------------------------------------------------------------
(* C17 *)

ArrowKeys == {"DOWN", "RIGHT", "UP", "LEFT"}

\* an arrow keydown that got to arrowRightAndDown or arrowLeftAndUp
ArrowHandled == ev.type = "keydown" /\ ev.key \in ArrowKeys /\ ~Called("throw")

\* the handler leaves the key to the flipper of an open toolbar
ArrowDeferred == ArrowHandled /\ ev.panel # "none" /\ ~ev.shiftKey

\* the handler toggles the cross-block selection
ArrowToggles ==
    /\ ArrowHandled
    /\ ~ArrowDeferred
    /\ ev.shiftKey
    /\ \/ ev.key = "DOWN" /\ (ev.isAtEnd \/ anyBlockSelected(pre.blocks))
       \/ ev.key = "UP" /\ (ev.isAtStart \/ anyBlockSelected(pre.blocks))

\* the number of selected blocks of a document
Selected(bs) == Cardinality({k \in DOMAIN bs : bs[k].selected})

\* the calls of the arrow handler: those of the keydown after the move of an
\* image block
ArrowCalls ==
    SelectSeq(calls, LAMBDA c : c.op \notin {"window.scrollTo", "window.scrollBy",
                                             "BlocksAPI.move"})

\* the calls every arrow handler that keeps the key starts with
ArrowCleared ==
    (IF ev.key \in {"UP", "LEFT"} /\ ev.panel # "none"
     THEN <<Call("UI.closeAllToolbars", NoIdx, NoArg)>> ELSE <<>>)
    \o << Call("BlockManager.clearFocused", NoIdx, NoArg),
          Call("Toolbar.close", NoIdx, NoArg) >>

\* C17: an arrow handler that finds a toolbar open and shift not held calls
\* nothing and changes nothing.  Every other arrow handler first clears the
\* block focus and closes the toolbar; then Shift+Down with the caret at the
\* end or a block selected, and Shift+Up with the caret at the start or a
\* block selected, call CrossBlockSelection.toggleBlockSelectedState and
\* nothing more: no caret navigation and no clearing of the block selection,
\* so no selected block is deselected and the current block, when there is
\* one, is selected.  The selection is toggled in no other case.
C17_ArrowGuards ==
    /\ ArrowDeferred =>
        /\ calls = <<>>
        /\ blocks = pre.blocks
        /\ currentBlockIndex = pre.cur
        /\ pending = pre.pending
    /\ ArrowHandled /\ ~ArrowDeferred =>
        /\ Len(ArrowCalls) > Len(ArrowCleared)
        /\ SubSeq(ArrowCalls, 1, Len(ArrowCleared)) = ArrowCleared
    /\ ArrowToggles =>
        /\ ArrowCalls = ArrowCleared \o
              << Call("CrossBlockSelection.toggleBlockSelectedState", NoIdx,
                      IF ev.key = "DOWN" THEN "next" ELSE "previous") >>
        /\ Selected(blocks) >= Selected(pre.blocks)
        /\ IF HadCurrent THEN BlockAt(blocks, currentBlockIndex).selected
           ELSE blocks = pre.blocks /\ currentBlockIndex = pre.cur
        /\ pending = pre.pending
    /\ Called("CrossBlockSelection.toggleBlockSelectedState") => ArrowToggles

\* Shift+Down with the caret at the end and no block selected: the current
\* block is selected and the caret has not moved
C17_Witness ==
    /\ ArrowToggles
    /\ ev.key = "DOWN"
    /\ ~ev.metaKey
    /\ ~anyBlockSelected(pre.blocks)
    /\ pre.cur < Len(pre.blocks) - 1
    /\ currentBlockIndex = pre.cur
    /\ BlockAt(blocks, pre.cur).selected

----------------------------------------------------------------------------
(* C18 *)

\* an arrow keydown whose handler gets to the caret navigation
ArrowNavigates == ArrowHandled /\ ~ArrowDeferred /\ ~ArrowToggles

\* the navigation the key stands for
ArrowNavigation ==
    IF \/ ev.key = "DOWN"
       \/ (ev.key = "RIGHT" /\ ~ev.isRtl)
       \/ (ev.key = "LEFT" /\ ev.isRtl)
    THEN "Caret.navigateNext"
    ELSE "Caret.navigatePrevious"

\* the index of the current block when the arrow handler started: where the
\* keydown moved it, or where the keydown found it
ArrowFrom ==
    IF Called("BlocksAPI.move")
    THEN calls[CHOOSE k \in CallsOf("BlocksAPI.move") : TRUE].idx
    ELSE pre.cur

\* the caret is in another block, or in another input of the current block
CaretMoved ==
    \/ currentBlockIndex # ArrowFrom
    \/ /\ HasBlock(blocks, currentBlockIndex)
       /\ BlockAt(blocks, currentBlockIndex).inputIndex # PreCur.inputIndex

\* C18: an arrow handler that neither leaves the key to the flipper nor
\* toggles the cross-block selection makes, after clearing the focus and
\* closing the toolbar, exactly three calls: one caret navigation (next for
\* Down, for Right in LTR and for Left in RTL, previous for Up, for Left in
\* LTR and for Right in RTL), then preventDefault if the caret has moved or
\* _.delay, which adds one waiting timer, if it has not, then
\* BlockSelection.clearSelection.  No other event calls _.delay or adds a
\* timer.
C18_Navigation ==
    /\ ArrowNavigates =>
        /\ ArrowCalls = ArrowCleared \o
              << Call(ArrowNavigation, NoIdx, NoArg),
                 Call(IF CaretMoved THEN "preventDefault" ELSE "_.delay", NoIdx, NoArg),
                 Call("BlockSelection.clearSelection", NoIdx, NoArg) >>
        /\ Timers(pending) = Timers(pre.pending) + (IF CaretMoved THEN 0 ELSE 1)
        /\ ~anyBlockSelected(blocks)
    /\ ~ArrowNavigates /\ ~Idle =>
        /\ ~Called("_.delay")
        /\ Timers(pending) <= Timers(pre.pending)

\* Right in a right-to-left editor with the caret at the start of the second
\* block: the caret went to the block before it
C18_Witness ==
    /\ ArrowNavigates
    /\ ev.key = "RIGHT"
    /\ ev.isRtl
    /\ pre.cur = 1
    /\ currentBlockIndex = 0
    /\ Called("preventDefault")
    /\ anyBlockSelected(pre.blocks)

----------------------------------------------------------------------------
(* C19 *)

\* what a timer does when it fires, and what the other events leave alone
C19_Refresh ==
    /\ ev.type = "timerFired" =>
        /\ Timers(pending) = Timers(pre.pending) - 1
        /\ Promises(pending) = Promises(pre.pending)
        /\ calls = IF HadCurrent
                   THEN <<Call("updateCurrentInput", pre.cur, NoArg)>>
                   ELSE <<>>
        /\ currentBlockIndex = pre.cur
        /\ \A k \in DOMAIN blocks :
              k # pre.cur + 1 \/ BlockAt(blocks, pre.cur).nInputs = 0
                  => blocks[k] = pre.blocks[k]
        /\ Len(blocks) = Len(pre.blocks)
    /\ ev.type \notin {"timerFired", "idle"} =>
        /\ Timers(pending) >= Timers(pre.pending)
        /\ ~Called("updateCurrentInput")

\* C19: no event but the firing of a timer takes a waiting timer away, and
\* the firing takes away one; the timer that fires calls updateCurrentInput
\* once, on the block that is current when it fires, and calls nothing when
\* there is no current block; it changes no other block.  Keydowns, cuts and
\* settling promises are handled while timers wait.  With a fair event loop
\* a waiting timer leads to the firing of a timer.
C19_Timers ==
    /\ []C19_Refresh
    /\ (Timers(pending) > 0) ~> (ev.type = "timerFired")

\* a timer fires after a merge was started, while another timer still waits
C19_Witness ==
    /\ ev.type = "timerFired"
    /\ Timers(pending) = 1
    /\ MergesPending(pending) = 1
    /\ HadCurrent
    /\ Called("updateCurrentInput")

----------------------------------------------------------------------------
(* C20 *)

\* C20: whenever Backspace goes into the merge routine the current block is
\* not the first block, so the block before it exists and nothing is thrown
\* for a missing target.  Backspace in the first block starts no merge,
\* creates no caret shadow, does not navigate to a previous block and removes
\* no block but, in the removal branch, the first block itself; every block
\* a Backspace removes is removed at an index of the document.
C20_MergeHasTarget ==
    /\ MergeEntered =>
        /\ pre.cur > 0
        /\ HasBlock(pre.blocks, pre.cur - 1)
        /\ ~Called("throw")
    /\ IsBackspace =>
        /\ \A k \in CallsOf("removeBlock") : HasBlock(pre.blocks, calls[k].idx)
        /\ \A k \in CallsOf("BlockManager.mergeBlocks") \cup CallsOf("Caret.createShadow") :
              HasBlock(pre.blocks, calls[k].idx)
    /\ IsBackspace /\ pre.cur = 0 =>
        /\ CallsTo({"BlockManager.mergeBlocks", "Caret.createShadow",
                    "Caret.navigatePrevious"}) = <<>>
        /\ MergesPending(pending) = MergesPending(pre.pending)
        /\ IF BackspaceRemoves
           THEN \A k \in CallsOf("removeBlock") : calls[k].idx = 0
           ELSE calls = <<>> /\ blocks = pre.blocks /\ pending = pre.pending

\* Backspace at the start of the second block, below a block of another type
\* that has text: the caret went to the first block
C20_Witness ==
    /\ MergeEntered
    /\ pre.cur = 1
    /\ PreCur.name # PrePrev.name
    /\ Called("Caret.navigatePrevious")
    /\ currentBlockIndex = 0

----------------------------------------------------------------------------
(* C21 *)

\* the keydown has moved an image block: Shift+Cmd+Down with a block below
\* it, Shift+Cmd+Up with a block above it
ImageMoved ==
    \/ MovesImage("DOWN") /\ pre.cur < Len(pre.blocks) - 1
    \/ MovesImage("UP") /\ pre.cur > 0

\* the call that toggles the cross-block selection towards the key
ToggleCall ==
    Call("CrossBlockSelection.toggleBlockSelectedState", NoIdx,
         IF ev.key = "DOWN" THEN "next" ELSE "previous")

\* C21: a Shift+Cmd+Down or Shift+Cmd+Up keydown that has moved an image
\* block goes on, in the same keydown, into the arrow handler of the key: after
\* the scroll and the move it clears the block focus and closes the toolbar,
\* whatever toolbar is open; then, with the caret at the end (Down) or at the
\* start (Up) or with a block selected, it toggles the cross-block selection
\* and calls nothing more, and otherwise it goes on to the caret navigation
\* of the key and toggles nothing.
C21_FallThrough ==
    ImageMoved =>
        LET rest == SubSeq(calls, 3, Len(calls))
            toggles == \/ anyBlockSelected(pre.blocks)
                       \/ ev.key = "DOWN" /\ ev.isAtEnd
                       \/ ev.key = "UP" /\ ev.isAtStart
        IN  /\ Len(calls) > 2
            /\ calls[1].op \in {"window.scrollTo", "window.scrollBy"}
            /\ calls[2].op = "BlocksAPI.move"
            /\ Len(rest) > Len(ArrowCleared)
            /\ SubSeq(rest, 1, Len(ArrowCleared)) = ArrowCleared
            /\ IF toggles
               THEN /\ rest = ArrowCleared \o <<ToggleCall>>
                    /\ BlockAt(blocks, currentBlockIndex).name = "image"
                    /\ BlockAt(blocks, currentBlockIndex).selected
               ELSE /\ rest[Len(ArrowCleared) + 1].op = ArrowNavigation
                    /\ ~Called("CrossBlockSelection.toggleBlockSelectedState")

\* Shift+Cmd+Up on an image that is the second block, with the toolbox open
\* and the caret at the start: the image went up, the toolbars were closed
\* and the image is selected
C21_Witness ==
    /\ MovesImage("UP")
    /\ pre.cur = 1
    /\ ev.panel # "none"
    /\ ev.isAtStart
    /\ ~anyBlockSelected(pre.blocks)
    /\ Called("BlocksAPI.move")
    /\ Called("UI.closeAllToolbars")
    /\ Called("CrossBlockSelection.toggleBlockSelectedState")
    /\ currentBlockIndex = 0
    /\ BlockAt(blocks, 0).selected

----------------------------------------------------------------------------
(* C22 *)

\* the indices of the blocks selected when the handler started
PreSelected == {k \in 0 .. Len(pre.blocks) - 1 : BlockAt(pre.blocks, k).selected}

\* what removeSelectedBlocks returns: the least of them, or nothing
FirstSelected ==
    IF PreSelected = {} THEN NoIdx
    ELSE CHOOSE k \in PreSelected : \A j \in PreSelected : k <= j

\* the names of the blocks that were not selected, in their order
PreUnselected == Names(SelectSeq(pre.blocks, LAMBDA b : ~b.selected))

\* the four calls of the function handleCommandX passes to then(), made with
\* the index removeSelectedBlocks returned
CutCalls ==
    << Call("removeSelectedBlocks", FirstSelected, NoArg),
       Call("insertDefaultBlockAtIndex", FirstSelected, defaultBlock),
       Call("Caret.setToBlock", FirstSelected, START),
       Call("BlockSelection.clearSelection", NoIdx, NoArg) >>

====
